---------------------------- MODULE Spec2Model ----------------------------
(***************************************************************************)
(* RAG restaurant chatbot: the orchestrator (RAGChatbot), its intent        *)
(* classifier, the retriever's targeted searches and the Streamlit          *)
(* sessions that drive one chatbot instance.                                *)
(*                                                                         *)
(* Text is modelled at character level: a Python str is a sequence of      *)
(* one-character strings, so that str.lower(), the `in` substring test,    *)
(* str.strip() and re.search are computed as the code computes them.       *)
(***************************************************************************)
EXTENDS Integers, Sequences, FiniteSets, TLC

(***************************************************************************)
(* Bounds of the model.                                                     *)
(***************************************************************************)
MaxPhrases == 5

NumSessions == 2

MaxCalls == 2

(***************************************************************************)
(* Characters and the str operations the code uses.                        *)
(***************************************************************************)
UpperCase == <<"A", "B", "C", "D", "E", "F", "G", "H", "I", "J", "K", "L", "M",
               "N", "O", "P", "Q", "R", "S", "T", "U", "V", "W", "X", "Y", "Z">>

LowerCase == <<"a", "b", "c", "d", "e", "f", "g", "h", "i", "j", "k", "l", "m",
               "n", "o", "p", "q", "r", "s", "t", "u", "v", "w", "x", "y", "z">>

\* The regex class \s restricted to the whitespace the inputs contain.
IsSpace(c) == c \in {" ", "\n", "\t"}

Letters == {LowerCase[i] : i \in 1..26} \cup {UpperCase[i] : i \in 1..26}

\* The regex class [a-zA-Z\s].
IsNameChar(c) == IsSpace(c) \/ c \in Letters

LowerTable == [c \in {UpperCase[i] : i \in 1..26} |->
                  LowerCase[CHOOSE i \in 1..26 : c = UpperCase[i]]]

LowerChar(c) == IF c \in DOMAIN LowerTable THEN LowerTable[c] ELSE c

\* str.lower()
Lower(s) == [i \in 1..Len(s) |-> LowerChar(s[i])]

\* s starts with pat at (1-based) position i
MatchAt(s, pat, i) ==
    /\ i >= 1
    /\ i + Len(pat) - 1 <= Len(s)
    /\ \A j \in 1..Len(pat) : s[i + j - 1] = pat[j]

\* `pat in s` for two str
Contains(s, pat) == \E i \in 1..(Len(s) + 1) : MatchAt(s, pat, i)

\* re.search of an alternation of literals: some literal occurs in s
ContainsAny(s, pats) == \E k \in 1..Len(pats) : Contains(s, pats[k])

\* c is in the character class cls: \s, [a-zA-Z\s] or non-whitespace
InClass(c, cls) ==
    CASE cls = "space" -> IsSpace(c)
      [] cls = "name" -> IsNameChar(c)
      [] OTHER -> ~IsSpace(c)

\* length of the run of characters of class cls that starts at position i
RunLength(s, i, cls) ==
    IF i > Len(s) \/ ~InClass(s[i], cls) THEN 0
    ELSE LET stops == {j \in i..Len(s) : ~InClass(s[j], cls)}
         IN  IF stops = {} THEN Len(s) - i + 1
             ELSE (CHOOSE j \in stops : \A k \in stops : j <= k) - i

\* str.strip()
Strip(s) ==
    LET keep == {i \in 1..Len(s) : ~IsSpace(s[i])}
    IN  IF keep = {} THEN <<>>
        ELSE SubSeq(s, CHOOSE i \in keep : \A k \in keep : i <= k,
                       CHOOSE i \in keep : \A k \in keep : i >= k)

Min(x, y) == IF x <= y THEN x ELSE y

\* s[:n]
Prefix(s, n) == SubSeq(s, 1, Min(n, Len(s)))

(***************************************************************************)
(* The literals of _detect_intent.                                          *)
(***************************************************************************)
\* r'compare|comparison|versus|vs\.?|difference'
ComparisonKeywords ==
    << <<"c", "o", "m", "p", "a", "r", "e">>,
       <<"c", "o", "m", "p", "a", "r", "i", "s", "o", "n">>,
       <<"v", "e", "r", "s", "u", "s">>,
       <<"v", "s">>,
       <<"d", "i", "f", "f", "e", "r", "e", "n", "c", "e">> >>

dietary_terms ==
    << <<"v", "e", "g", "e", "t", "a", "r", "i", "a", "n">>,
       <<"v", "e", "g", "a", "n">>,
       <<"g", "l", "u", "t", "e", "n", "-", "f", "r", "e", "e">>,
       <<"g", "l", "u", "t", "e", "n", " ", "f", "r", "e", "e">>,
       <<"n", "u", "t", "-", "f", "r", "e", "e">>,
       <<"d", "a", "i", "r", "y", "-", "f", "r", "e", "e">> >>

\* r'menu|item|dish|food|appetizer|entree|dessert'
MenuKeywords ==
    << <<"m", "e", "n", "u">>,
       <<"i", "t", "e", "m">>,
       <<"d", "i", "s", "h">>,
       <<"f", "o", "o", "d">>,
       <<"a", "p", "p", "e", "t", "i", "z", "e", "r">>,
       <<"e", "n", "t", "r", "e", "e">>,
       <<"d", "e", "s", "s", "e", "r", "t">> >>

\* r'restaurant|location|address|hour|contact'
InfoKeywords ==
    << <<"r", "e", "s", "t", "a", "u", "r", "a", "n", "t">>,
       <<"l", "o", "c", "a", "t", "i", "o", "n">>,
       <<"a", "d", "d", "r", "e", "s", "s">>,
       <<"h", "o", "u", "r">>,
       <<"c", "o", "n", "t", "a", "c", "t">> >>

BetweenWord == <<"b", "e", "t", "w", "e", "e", "n">>

AndWord == <<"a", "n", "d">>

(***************************************************************************)
(* re.search(r'between\s+([a-zA-Z\s]+)\s+and\s+([a-zA-Z\s]+)', s).         *)
(* A match at position i is  between  \s{a}  group1{b}  \s{c}  and  \s{d}   *)
(* group2{e}.  The regex engine is greedy with backtracking: it takes the   *)
(* leftmost i that matches at all and, there, the largest a, then the       *)
(* largest b, then the largest c, d and e.                                  *)
(***************************************************************************)
\* what follows group1 when it ends right before position r: \s+and\s+ and
\* one more character of group2
TailMatches(s, r) ==
    LET c == RunLength(s, r, "space")
    IN  /\ c >= 1
        /\ MatchAt(s, AndWord, r + c)
        /\ r + c + 4 <= Len(s)
        /\ IsSpace(s[r + c + 3])
        /\ IsNameChar(s[r + c + 4])

\* the pairs <<a, b>> with which the pattern matches at position i
BetweenSplits(s, i) ==
    IF ~MatchAt(s, BetweenWord, i) THEN {}
    ELSE LET p == i + Len(BetweenWord)
         IN  {ab \in (1..RunLength(s, p, "space")) \X (1..Len(s)) :
                 /\ ab[2] <= RunLength(s, p + ab[1], "name")
                 /\ TailMatches(s, p + ab[1] + ab[2])}

\* group(2) when group1 ends right before position r
BetweenGroup2(s, r) ==
    LET q == r + RunLength(s, r, "space") + Len(AndWord)
        d == RunLength(s, q, "space")
        e == RunLength(s, q + d, "name")
    IN  IF e >= 1 THEN SubSeq(s, q + d, q + d + e - 1)
        ELSE SubSeq(s, q + d - 1, q + d - 1)

\* the split the engine settles on: the largest a, then the largest b
GreedySplit(splits) ==
    CHOOSE ab \in splits :
        \A x \in splits : ab[1] > x[1] \/ (ab[1] = x[1] /\ ab[2] >= x[2])

\* <<group(1), group(2)>> of the match whose text after `between` starts at p
BetweenGroups(s, p, ab) ==
    << SubSeq(s, p + ab[1], p + ab[1] + ab[2] - 1), BetweenGroup2(s, p + ab[1] + ab[2]) >>

\* <<>> when the pattern does not match (None), else <<group(1), group(2)>>
\* of the leftmost match
between_match(s) ==
    IF \A i \in 1..Len(s) : BetweenSplits(s, i) = {} THEN <<>>
    ELSE LET i == CHOOSE k \in 1..Len(s) :
                      /\ BetweenSplits(s, k) # {}
                      /\ \A j \in 1..(k - 1) : BetweenSplits(s, j) = {}
         IN  BetweenGroups(s, i + Len(BetweenWord), GreedySplit(BetweenSplits(s, i)))

(***************************************************************************)
(* RAGChatbot._detect_intent                                                *)
(***************************************************************************)
\* the restaurant documents whose lower-cased name occurs in the query, in
\* store order
NamedRestaurants(documents, query_lower) ==
    SelectSeq(documents,
              LAMBDA doc : /\ doc.type = "restaurant"
                           /\ Contains(query_lower, Lower(doc.metadata.name)))

\* lines 80-89: the names extracted for a comparison, m being between_match
ExtractedNames(m, documents, query_lower) ==
    IF m # <<>> THEN << Strip(m[1]), Strip(m[2]) >>
    ELSE [k \in 1..Len(NamedRestaurants(documents, query_lower)) |->
             NamedRestaurants(documents, query_lower)[k].metadata.name]

\* lines 76-89
restaurant_names(documents, query_lower) ==
    ExtractedNames(between_match(query_lower), documents, query_lower)

\* a comparison rule satisfied by a single name
one_name(names) == Len(names) >= 1

\* line 91: enough names for a comparison
enough_names(names) == Len(names) >= 2

\* the least index at which pat occurs in s
FirstIndex(s, pat) ==
    CHOOSE i \in 1..Len(s) : MatchAt(s, pat, i) /\ \A j \in 1..(i - 1) : ~MatchAt(s, pat, j)

\* a dietary rule that yields the term occurring earliest in the query
earliest_term(query_lower) ==
    IF \A k \in 1..Len(dietary_terms) : ~Contains(query_lower, dietary_terms[k]) THEN <<>>
    ELSE << dietary_terms[CHOOSE k \in 1..Len(dietary_terms) :
                /\ Contains(query_lower, dietary_terms[k])
                /\ \A j \in 1..Len(dietary_terms) :
                       Contains(query_lower, dietary_terms[j]) =>
                           FirstIndex(query_lower, dietary_terms[k])
                               <= FirstIndex(query_lower, dietary_terms[j])] >>

\* lines 98-104: the first term of dietary_terms, in list order, that occurs
\* in the query; <<>> when none does
dietary_preference(query_lower) ==
    IF \A k \in 1..Len(dietary_terms) : ~Contains(query_lower, dietary_terms[k]) THEN <<>>
    ELSE << dietary_terms[CHOOSE k \in 1..Len(dietary_terms) :
                /\ Contains(query_lower, dietary_terms[k])
                /\ \A j \in 1..(k - 1) : ~Contains(query_lower, dietary_terms[j])] >>

\* a restaurant rule that takes the first restaurant of the store whether or
\* not the query names it
first_restaurant(documents, query_lower) ==
    IF ContainsAny(query_lower, InfoKeywords)
    THEN Prefix([k \in 1..Len(SelectSeq(documents, LAMBDA d : d.type = "restaurant")) |->
                    SelectSeq(documents, LAMBDA d : d.type = "restaurant")[k].metadata.name], 1)
    ELSE <<>>

\* lines 114-122: the first restaurant document named in a query that has a
\* restaurant keyword; <<>> when the rule does not fire
restaurant_info_match(documents, query_lower) ==
    IF ContainsAny(query_lower, InfoKeywords)
    THEN Prefix([k \in 1..Len(NamedRestaurants(documents, query_lower)) |->
                    NamedRestaurants(documents, query_lower)[k].metadata.name], 1)
    ELSE <<>>

\* a rule chain that tests the menu rule before the dietary rule
MenuRuleFirst(preference, menu, restaurant, query) ==
    IF menu THEN [type |-> "menu_item", query |-> query]
    ELSE IF preference # <<>> THEN [type |-> "dietary", preference |-> preference[1]]
    ELSE IF restaurant # <<>> THEN [type |-> "restaurant_info", restaurant |-> restaurant[1]]
    ELSE [type |-> "generic", query |-> query]

\* lines 97-128: the rules after the comparison rule, preference and
\* restaurant being what the dietary and the restaurant rule found
RuleChain(preference, menu, restaurant, query) ==
    IF preference # <<>> THEN [type |-> "dietary", preference |-> preference[1]]
    ELSE IF menu THEN [type |-> "menu_item", query |-> query]
    ELSE IF restaurant # <<>> THEN [type |-> "restaurant_info", restaurant |-> restaurant[1]]
    ELSE [type |-> "generic", query |-> query]

\* lines 97-128
LaterRules(documents, query, query_lower) ==
    RuleChain(dietary_preference(query_lower), ContainsAny(query_lower, MenuKeywords),
              restaurant_info_match(documents, query_lower), query)

\* lines 74-95: the comparison rule, names being the names extracted
ComparisonRule(names, documents, query, query_lower) ==
    IF ContainsAny(query_lower, ComparisonKeywords) /\ enough_names(names)
    THEN [type |-> "comparison", restaurants |-> names]
    ELSE LaterRules(documents, query, query_lower)

\* lines 71-128, given query.lower()
DetectLowered(documents, query, query_lower) ==
    ComparisonRule(restaurant_names(documents, query_lower), documents, query, query_lower)

detect_intent(documents, query) == DetectLowered(documents, query, Lower(query))

(***************************************************************************)
(* The knowledge base a DocumentRetriever loads: two restaurants and the    *)
(* menu of the first one.  Eleven documents, one more than the default      *)
(* top_k of the targeted searches, so that a search can miss a document.    *)
(***************************************************************************)
BurgerJoint == <<"B", "u", "r", "g", "e", "r", " ", "J", "o", "i", "n", "t">>

TacoHaven == <<"T", "a", "c", "o", " ", "H", "a", "v", "e", "n">>

\* create_restaurant_documents: one document per row of restaurants.csv
RestaurantDocs ==
    << [id |-> "restaurant_0", type |-> "restaurant", metadata |-> [name |-> BurgerJoint]],
       [id |-> "restaurant_1", type |-> "restaurant", metadata |-> [name |-> TacoHaven]] >>

MenuItemIds == << "menu_item_0", "menu_item_1", "menu_item_2", "menu_item_3", "menu_item_4",
                  "menu_item_5", "menu_item_6", "menu_item_7", "menu_item_8" >>

\* create_menu_item_documents: one document per row of menu_items.csv
MenuItemDocs ==
    [k \in 1..Len(MenuItemIds) |->
        [id |-> MenuItemIds[k], type |-> "menu_item",
         metadata |-> [restaurant |-> BurgerJoint,
                       name |-> IF k = 1 THEN <<"S", "a", "l", "a", "d">>
                                ELSE <<"F", "r", "i", "e", "s">>,
                       dietary_info |-> IF k = 1 THEN <<"V", "e", "g", "a", "n">>
                                        ELSE <<"S", "p", "i", "c", "y">>]]]

\* save_knowledge_base: documents.json, document_ids.json, document_metadata.json
\* and the number of rows of the FAISS index
KnowledgeBase ==
    LET docs == RestaurantDocs \o MenuItemDocs
    IN  [documents |-> docs,
         document_ids |-> [k \in 1..Len(docs) |-> docs[k].id],
         document_metadata |-> [d \in {docs[k].id : k \in 1..Len(docs)} |->
                                   docs[CHOOSE k \in 1..Len(docs) : docs[k].id = d].metadata],
         ntotal |-> Len(docs)]

\* the artifacts of a knowledge base without documents: an index with no
\* rows and empty tables
EmptyKnowledgeBase ==
    [documents |-> <<>>, document_ids |-> <<>>, document_metadata |-> <<>>, ntotal |-> 0]

(***************************************************************************)
(* DocumentRetriever.  The embedding model and the FAISS index are opaque:  *)
(* what they contribute to a search is the order of the index rows by       *)
(* distance to the query, a sequence of [idx, distance] with non-decreasing *)
(* distance.  Each search draws its order from SearchOrders.                *)
(***************************************************************************)
DefaultTopK == 10

FallbackTopK == 5

\* the orders considered: every rotation of the row order
SearchOrders(n) ==
    IF n = 0 THEN {<<>>}
    ELSE {[i \in 1..n |-> [idx |-> ((i + j - 2) % n) + 1, distance |-> i - 1]] : j \in 1..n}

\* index.search(query_embedding, top_k): the top_k nearest rows (the -1
\* padding of a short result is dropped by `if idx != -1`)
index_search(order, top_k) == Prefix(order, top_k)

\* a result whose score grows with the distance
HitResultByDistance(store, doc_id, distance) ==
    [id |-> doc_id,
     score |-> [num |-> 1 + distance, den |-> 1],
     metadata |-> store.document_metadata[doc_id],
     type |-> store.documents[CHOOSE k \in 1..Len(store.documents) :
                                 store.documents[k].id = doc_id].type]

\* retrieve_documents, lines 101-114: the result for one hit.  score is
\* 1 / (1 + distance), kept as a fraction.
HitResult(store, doc_id, distance) ==
    [id |-> doc_id,
     score |-> [num |-> 1, den |-> 1 + distance],
     metadata |-> store.document_metadata[doc_id],
     type |-> store.documents[CHOOSE k \in 1..Len(store.documents) :
                  /\ store.documents[k].id = doc_id
                  /\ \A j \in 1..(k - 1) : store.documents[j].id # doc_id].type]

\* lines 99-114: the results for the hits whose document is in documents.json
HitResults(store, kept) ==
    [i \in 1..Len(kept) |-> HitResult(store, store.document_ids[kept[i].idx], kept[i].distance)]

\* retrieve_documents: join the hits with the documents by id; a hit whose
\* document is not in documents.json is dropped
retrieve_documents(store, order, top_k) ==
    HitResults(store,
               SelectSeq(index_search(order, top_k),
                         LAMBDA h : \E k \in 1..Len(store.documents) :
                                        store.documents[k].id = store.document_ids[h.idx]))

\* a search by restaurant that keeps every menu item
search_by_restaurant_loose(store, order, restaurant_name) ==
    SelectSeq(retrieve_documents(store, order, DefaultTopK),
              LAMBDA doc :
                  \/ doc.type = "menu_item"
                  \/ Lower(doc.metadata.name) = Lower(restaurant_name))

\* lines 118-140
search_by_restaurant(store, order, restaurant_name) ==
    SelectSeq(retrieve_documents(store, order, DefaultTopK),
              LAMBDA doc :
                  \/ /\ doc.type = "restaurant"
                     /\ Lower(doc.metadata.name) = Lower(restaurant_name)
                  \/ /\ doc.type = "menu_item"
                     /\ Lower(doc.metadata.restaurant) = Lower(restaurant_name))

\* a menu search that does not truncate
search_menu_items_all(store, order, top_k) ==
    SelectSeq(retrieve_documents(store, order, top_k * 2), LAMBDA doc : doc.type = "menu_item")

\* lines 142-163
search_menu_items(store, order, top_k) ==
    Prefix(SelectSeq(retrieve_documents(store, order, top_k * 2),
                     LAMBDA doc : doc.type = "menu_item"),
           top_k)

\* lines 165-190, for dietary_info values that are str
search_dietary_options(store, order, dietary_preference_, top_k) ==
    Prefix(SelectSeq(retrieve_documents(store, order, top_k * 3),
                     LAMBDA doc :
                         /\ doc.type = "menu_item"
                         /\ "dietary_info" \in DOMAIN doc.metadata
                         /\ Contains(Lower(doc.metadata.dietary_info),
                                     Lower(dietary_preference_))),
           top_k)

stopwords ==
    { <<"t", "h", "e">>, <<"a">>, <<"a", "n">>, <<"i", "n">>, <<"o", "n">>,
      <<"a", "t">>, <<"o", "f">>, <<"f", "o", "r">>, <<"w", "i", "t", "h">>,
      <<"a", "b", "o", "u", "t">>,
      <<"r", "e", "s", "t", "a", "u", "r", "a", "n", "t">>,
      <<"f", "o", "o", "d">>, <<"m", "e", "n", "u">> }

\* str.split(): the maximal runs of non-whitespace characters
Split(s) ==
    LET starts == {i \in 1..Len(s) : ~IsSpace(s[i]) /\ (i = 1 \/ IsSpace(s[i - 1]))}
        Start(k) == CHOOSE i \in starts : Cardinality({j \in starts : j < i}) = k - 1
    IN  [k \in 1..Cardinality(starts) |->
            SubSeq(s, Start(k), Start(k) + RunLength(s, Start(k), "word") - 1)]

\* a supplement that puts the new documents in front
SupplementedInFront(results, key_terms, additional_results, top_k) ==
    IF Len(results) < top_k /\ key_terms # <<>>
    THEN Prefix(SelectSeq(additional_results,
                    LAMBDA doc : doc.id \notin {results[i].id : i \in 1..Len(results)})
                \o results,
                top_k)
    ELSE Prefix(results, top_k)

\* a supplement that appends without looking at the ids already present
SupplementedUnfiltered(results, key_terms, additional_results, top_k) ==
    IF Len(results) < top_k /\ key_terms # <<>>
    THEN results \o additional_results
    ELSE Prefix(results, top_k)

\* lines 207-225: the supplement of retrieve_with_fallback; additional_results
\* is what the search for the simplified query returns
Supplemented(results, key_terms, additional_results, top_k) ==
    IF Len(results) < top_k /\ key_terms # <<>>
    THEN Prefix(results \o SelectSeq(additional_results,
                    LAMBDA doc : doc.id \notin {results[i].id : i \in 1..Len(results)}),
                top_k)
    ELSE Prefix(results, top_k)

\* lines 209-212
key_terms_of(query) == SelectSeq(Split(Lower(query)), LAMBDA term : term \notin stopwords)

\* lines 217: the search for the simplified query
AdditionalResults(store, results, simplified_order, top_k) ==
    IF Len(results) < top_k
    THEN retrieve_documents(store, simplified_order, top_k - Len(results))
    ELSE <<>>

\* retrieve_with_fallback, results being what the first search returned
FallbackFrom(store, results, simplified_order, query, top_k) ==
    Supplemented(results, key_terms_of(query),
                 AdditionalResults(store, results, simplified_order, top_k), top_k)

\* retrieve_with_fallback: order is the order of the rows for the query,
\* simplified_order their order for the query without stopwords
retrieve_with_fallback(store, order, simplified_order, query, top_k) ==
    FallbackFrom(store, retrieve_documents(store, order, top_k), simplified_order, query, top_k)

(***************************************************************************)
(* Queries: sequences of distinct phrases joined by one space.              *)
(***************************************************************************)
Phrases == {"Compare", "between", "and", "Burger Joint", "Taco Haven",
            "vegan", "gluten-free", "items?", "hours"}

Spelling ==
    [p \in Phrases |->
        CASE p = "Compare"      -> <<"C", "o", "m", "p", "a", "r", "e">>
          [] p = "between"      -> <<"b", "e", "t", "w", "e", "e", "n">>
          [] p = "and"          -> <<"a", "n", "d">>
          [] p = "Burger Joint" -> BurgerJoint
          [] p = "Taco Haven"   -> TacoHaven
          [] p = "vegan"        -> <<"v", "e", "g", "a", "n">>
          [] p = "gluten-free"  -> <<"g", "l", "u", "t", "e", "n", "-", "f", "r", "e", "e">>
          [] p = "items?"       -> <<"i", "t", "e", "m", "s", "?">>
          [] p = "hours"        -> <<"h", "o", "u", "r", "s">>]

RECURSIVE Text(_)
\* the str a phrase sequence spells
Text(q) ==
    IF q = <<>> THEN <<>>
    ELSE IF Len(q) = 1 THEN Spelling[q[1]]
    ELSE Spelling[q[1]] \o <<" ">> \o Text(Tail(q))

PhraseSeqs(n) == {q \in [1..n -> Phrases] : \A i, j \in 1..n : q[i] = q[j] => i = j}

Queries == UNION {PhraseSeqs(n) : n \in 1..MaxPhrases}

NoResult == [type |-> "none"]

(***************************************************************************)
(* ResponseGenerator.  generate_response calls the language model once and  *)
(* returns its cleaned text; the text is drawn from GeneratedTexts.         *)
(***************************************************************************)
GeneratedTexts == { <<"Y", "e", "s">>, <<>> }

\* number of language-model calls of an entry point of the generator:
\* answer_query (line 175), handle_no_results (line 194) and
\* generate_comparison (line 244) each call generate_response once
generator_calls(entry) == IF entry = "none" THEN 0 ELSE 1

\* create_prompt line 102: chat_history[-3:]
history_window(history) ==
    SubSeq(history, IF Len(history) > 3 THEN Len(history) - 2 ELSE 1, Len(history))

\* the entries of the history that reach the prompt of an entry point: only
\* answer_query is given the history (rag_chatbot.py 161, 168, 171, 176, 183);
\* handle_no_results and generate_comparison build their prompt without it
prompt_history(entry, history) ==
    IF entry = "answer_query" THEN history_window(history) ELSE <<>>

(***************************************************************************)
(* RAGChatbot                                                               *)
(***************************************************************************)
\* an add_message_to_history that inserts at the front
insert_message_in_front(history, role, content) ==
    <<[role |-> role, content |-> content]>> \o history

\* a clear_chat_history that leaves the history as it is
keep_chat_history(history) == history

\* lines 35-46
add_message_to_history(history, role, content) ==
    Append(history, [role |-> role, content |-> content])

\* lines 57-59
clear_chat_history(history) == <<>>

\* line 163
DietaryNotFound(preference) ==
    <<"I", " ", "c", "o", "u", "l", "d", "n", "'", "t", " ", "f", "i", "n", "d", " ",
      "a", "n", "y", " ", "m", "e", "n", "u", " ", "i", "t", "e", "m", "s", " ",
      "w", "i", "t", "h", " ">>
    \o preference \o
    <<" ", "d", "i", "e", "t", "a", "r", "y", " ", "p", "r", "e", "f", "e", "r", "e",
      "n", "c", "e", " ", "i", "n", " ", "o", "u", "r", " ", "d", "a", "t", "a", "b",
      "a", "s", "e", ".">>

\* line 178
RestaurantNotFound(restaurant) ==
    <<"I", " ", "c", "o", "u", "l", "d", "n", "'", "t", " ", "f", "i", "n", "d", " ",
      "i", "n", "f", "o", "r", "m", "a", "t", "i", "o", "n", " ", "a", "b", "o", "u",
      "t", " ">>
    \o restaurant \o
    <<" ", "i", "n", " ", "o", "u", "r", " ", "d", "a", "t", "a", "b", "a", "s", "e", ".">>

\* a dietary branch that asks the generator whatever the search returned
answer_dietary_generated(intent, documents, text) ==
    [found |-> Len(documents), entry |-> "answer_query", response |-> text]

\* lines 160-163: the dietary branch of answer after its search
answer_dietary(intent, documents, text) ==
    IF documents # <<>>
    THEN [found |-> Len(documents), entry |-> "answer_query", response |-> text]
    ELSE [found |-> 0, entry |-> "none", response |-> DietaryNotFound(intent.preference)]

\* lines 175-178: the restaurant_info branch of answer after its search
answer_restaurant_info(intent, documents, text) ==
    IF documents # <<>>
    THEN [found |-> Len(documents), entry |-> "answer_query", response |-> text]
    ELSE [found |-> 0, entry |-> "none", response |-> RestaurantNotFound(intent.restaurant)]

\* lines 167-171: the menu_item branch of answer after search_menu_items;
\* retried is what retrieve_with_fallback returns
answer_menu_item(documents, retried, text) ==
    IF documents # <<>>
    THEN [found |-> Len(documents), entry |-> "answer_query", response |-> text]
    ELSE [found |-> Len(retried), entry |-> "answer_query", response |-> text]

\* lines 182-185: the generic branch of answer after retrieve_with_fallback
answer_generic(documents, text) ==
    IF documents # <<>>
    THEN [found |-> Len(documents), entry |-> "answer_query", response |-> text]
    ELSE [found |-> 0, entry |-> "handle_no_results", response |-> text]

\* a comparison branch that hands over the documents of the first name only
answer_comparison_first(intent, searched, text) ==
    [found |-> 0, entry |-> "generate_comparison", response |-> text,
     searched |-> searched,
     restaurant_docs |-> [r \in {intent.restaurants[1]} |-> searched[1]]]

\* lines 151-156: the comparison branch of answer, searched[k] being what
\* search_by_restaurant returned for the k-th name.  restaurant_docs is the
\* dict handed to generate_comparison: a name that occurs twice keeps the
\* documents of its last search.
answer_comparison(intent, searched, text) ==
    [found |-> 0, entry |-> "generate_comparison", response |-> text,
     searched |-> searched,
     restaurant_docs |->
         [r \in {intent.restaurants[k] : k \in 1..Len(intent.restaurants)} |->
             searched[CHOOSE k \in 1..Len(intent.restaurants) :
                          /\ intent.restaurants[k] = r
                          /\ \A j \in (k + 1)..Len(intent.restaurants) :
                                 intent.restaurants[j] # r]]]

\* the orders the second search of retrieve_with_fallback can draw; it runs
\* only when the first search returns fewer than top_k documents
FallbackOrders(store, order, top_k) ==
    IF Len(retrieve_documents(store, order, top_k)) < top_k
    THEN SearchOrders(store.ntotal)
    ELSE {order}

\* lines 166-171, documents being what search_menu_items returned
MenuItemOutcomes(store, query, documents, SO) ==
    IF documents # <<>>
    THEN {answer_menu_item(documents, <<>>, text) : text \in GeneratedTexts}
    ELSE {answer_menu_item(documents,
                           retrieve_with_fallback(store, os[1], os[2], query, FallbackTopK),
                           text) : os \in SO \X SO, text \in GeneratedTexts}

\* lines 149-185: the branch of answer for an intent, over the row orders SO
\* of its searches and the texts the model generates
BranchOutcomes(store, query, intent, SO) ==
    CASE intent.type = "comparison" ->
           {answer_comparison(intent,
                [k \in 1..Len(intent.restaurants) |->
                    search_by_restaurant(store, os[((k - 1) % 2) + 1], intent.restaurants[k])],
                text) : os \in SO \X SO, text \in GeneratedTexts}
      [] intent.type = "dietary" ->
           {answer_dietary(intent,
                search_dietary_options(store, o, intent.preference, DefaultTopK),
                text) : o \in SO, text \in GeneratedTexts}
      [] intent.type = "menu_item" ->
           UNION {MenuItemOutcomes(store, query,
                                   search_menu_items(store, o, DefaultTopK), SO) : o \in SO}
      [] intent.type = "restaurant_info" ->
           {answer_restaurant_info(intent,
                search_by_restaurant(store, o, intent.restaurant),
                text) : o \in SO, text \in GeneratedTexts}
      [] OTHER ->
           UNION {{answer_generic(retrieve_with_fallback(store, o, o2, query, FallbackTopK),
                                  text) :
                      o2 \in FallbackOrders(store, o, FallbackTopK), text \in GeneratedTexts}
                  : o \in SO}

\* the result of a call together with its intent
WithIntent(intent, outs) ==
    {[intent |-> intent, found |-> out.found, entry |-> out.entry,
      response |-> out.response] : out \in outs}

\* lines 144-185 of answer: what a call can compute between its two appends
OutcomesFor(store, query, intent) ==
    WithIntent(intent, BranchOutcomes(store, query, intent, SearchOrders(store.ntotal)))

answer_outcomes(store, query) == OutcomesFor(store, query, detect_intent(store.documents, query))

(***************************************************************************)
(* The Streamlit application: sessions, each running main() in its own      *)
(* script thread, and the resource cache of initialize_chatbot.             *)
(***************************************************************************)
Sessions == 1..NumSessions

Instances == 1..NumSessions

\* the queries the sessions submit
AppQueries ==
    { <<"vegan", "items?">>,
      <<"gluten-free", "items?">>,
      <<"Taco Haven", "hours">>,
      <<"Compare", "Burger Joint", "and", "Taco Haven">>,
      <<"items?">>,
      <<"hours">> }

NoTurn == [status |-> "none"]

VARIABLES
    kb,               \* the loaded knowledge base (DocumentRetriever's fields)
    arg,              \* the phrases of the query given to a pure function
    result,           \* what the function returned, NoResult before the call
    cache,            \* st.cache_resource of initialize_chatbot: 0, or the instance
    session_chatbot,  \* st.session_state.chatbot of each session, 0 before its first run
    chat_history,     \* RAGChatbot.chat_history of each instance
    pc,               \* where each session's script thread is
    turn,             \* the answer() call of each session: its locals and outcome
    owner,            \* history variable: the call that appended each history entry
    ncalls,           \* history variable: answer() calls started so far
    usage             \* history variable: per instance, since its history was last
                      \* emptied, the calls begun since then that returned or
                      \* failed, and the calls begun before then that returned (stale)

vars == <<kb, arg, result, cache, session_chatbot, chat_history, pc, turn, owner,
          ncalls, usage>>

appvars == <<cache, session_chatbot, chat_history, pc, turn, owner, ncalls, usage>>

AppInit ==
    /\ cache = 0
    /\ session_chatbot = [s \in Sessions |-> 0]
    /\ chat_history = [i \in Instances |-> <<>>]
    /\ pc = [s \in Sessions |-> "idle"]
    /\ turn = [s \in Sessions |-> NoTurn]
    /\ owner = [i \in Instances |-> <<>>]
    /\ ncalls = 0
    /\ usage = [i \in Instances |-> [returned |-> 0, failed |-> 0, stale |-> 0]]

Init ==
    /\ kb \in {KnowledgeBase, EmptyKnowledgeBase}
    /\ arg = <<>>
    /\ result = NoResult
    /\ AppInit

\* the sessions with an operation in progress on instance i
Busy(i) == {s \in Sessions : session_chatbot[s] = i /\ pc[s] # "idle"}

\* the calls that have an entry in the history of instance i
Calls(i) == {owner[i][k] : k \in 1..Len(owner[i])}

\* app.py 29-48: the cached instance, constructed by the first call
initialize_chatbot == IF cache = 0 THEN 1 ELSE cache

\* app.py 180-184: the first script run of a session
StartSession(s) ==
    /\ session_chatbot[s] = 0
    /\ cache' = initialize_chatbot
    /\ session_chatbot' = [session_chatbot EXCEPT ![s] = initialize_chatbot]
    /\ UNCHANGED <<kb, arg, result, chat_history, pc, turn, owner, ncalls, usage>>

\* app.py 198-208 and rag_chatbot.py 141: main() calls answer(), which
\* appends the user entry
Submit(s, q) ==
    LET i == session_chatbot[s]
        query == Text(q)
    IN  /\ i # 0
        /\ pc[s] = "idle"
        /\ ncalls < MaxCalls
        /\ chat_history' = [chat_history EXCEPT ![i] = add_message_to_history(@, "user", query)]
        /\ owner' = [owner EXCEPT ![i] = Append(@, ncalls + 1)]
        /\ ncalls' = ncalls + 1
        /\ pc' = [pc EXCEPT ![s] = "answering"]
        /\ turn' = [turn EXCEPT ![s] = [status |-> "running", call |-> ncalls + 1,
                                        query |-> query, before |-> chat_history[i]]]
        /\ UNCHANGED <<kb, arg, result, cache, session_chatbot, usage>>

\* rag_chatbot.py 144-185: classification, retrieval and generation succeed
Respond(s) ==
    /\ pc[s] = "answering"
    /\ \E out \in answer_outcomes(kb, turn[s].query) :
          turn' = [turn EXCEPT ![s] =
                      [status |-> "responded", call |-> @.call, query |-> @.query,
                       before |-> @.before, intent |-> out.intent,
                       found |-> out.found, entry |-> out.entry,
                       response |-> out.response,
                       context |-> prompt_history(out.entry,
                                                  chat_history[session_chatbot[s]])]]
    /\ pc' = [pc EXCEPT ![s] = "responded"]
    /\ UNCHANGED <<kb, arg, result, cache, session_chatbot, chat_history,
                   owner, ncalls, usage>>

\* rag_chatbot.py 144-185: the embedding model, the index or the language
\* model raises; answer() has no handler, the exception leaves it
Raise(s) ==
    /\ pc[s] = "answering"
    /\ pc' = [pc EXCEPT ![s] = "raised"]
    /\ turn' = [turn EXCEPT ![s] = [status |-> "raised", call |-> @.call,
                                    query |-> @.query, before |-> @.before]]
    /\ UNCHANGED <<kb, arg, result, cache, session_chatbot, chat_history,
                   owner, ncalls, usage>>

\* app.py 215-216: main() catches the exception and shows it
ShowError(s) ==
    LET i == session_chatbot[s]
    IN  /\ pc[s] = "raised"
        /\ pc' = [pc EXCEPT ![s] = "idle"]
        /\ turn' = [turn EXCEPT ![s] = NoTurn]
        /\ usage' = [usage EXCEPT ![i].failed =
                         IF turn[s].call \in Calls(i) THEN @ + 1 ELSE @]
        /\ UNCHANGED <<kb, arg, result, cache, session_chatbot, chat_history,
                       owner, ncalls>>

\* rag_chatbot.py 188-190: answer() appends the assistant entry and returns
Finish(s) ==
    LET i == session_chatbot[s]
    IN  /\ pc[s] = "responded"
        /\ chat_history' = [chat_history EXCEPT ![i] =
                               add_message_to_history(@, "assistant", turn[s].response)]
        /\ owner' = [owner EXCEPT ![i] = Append(@, turn[s].call)]
        /\ pc' = [pc EXCEPT ![s] = "idle"]
        /\ turn' = [turn EXCEPT ![s] = NoTurn]
        /\ usage' = [usage EXCEPT
                         ![i].returned = IF turn[s].call \in Calls(i) THEN @ + 1 ELSE @,
                         ![i].stale = IF turn[s].call \in Calls(i) THEN @ ELSE @ + 1]
        /\ UNCHANGED <<kb, arg, result, cache, session_chatbot, ncalls>>

\* app.py 167-171: the Clear Chat button
ClearChat(s) ==
    LET i == session_chatbot[s]
    IN  /\ i # 0
        /\ pc[s] = "idle"
        /\ chat_history' = [chat_history EXCEPT ![i] = clear_chat_history(@)]
        /\ owner' = [owner EXCEPT ![i] = <<>>]
        /\ usage' = [usage EXCEPT ![i] = [returned |-> 0, failed |-> 0, stale |-> 0]]
        /\ UNCHANGED <<kb, arg, result, cache, session_chatbot, pc, turn, ncalls>>

Next ==
    \E s \in Sessions :
        \/ StartSession(s)
        \/ \E q \in AppQueries : Submit(s, q)
        \/ Respond(s)
        \/ Raise(s)
        \/ ShowError(s)
        \/ Finish(s)
        \/ ClearChat(s)

Spec == Init /\ [][Next]_vars

(***************************************************************************)
(* Intent classification as a function of the query.                        *)
(***************************************************************************)
InitIntent ==
    /\ kb = KnowledgeBase
    /\ arg \in Queries
    /\ result = NoResult
    /\ AppInit

Classify ==
    /\ result = NoResult
    /\ result' = detect_intent(kb.documents, Text(arg))
    /\ UNCHANGED <<kb, arg>>
    /\ UNCHANGED appvars

NextIntent == Classify

SpecIntent == InitIntent /\ [][NextIntent]_vars


(***************************************************************************)
(* Properties of the conversation history (specification Spec).             *)
(***************************************************************************)
UserEntry(query) == [role |-> "user", content |-> query]

AssistantEntry(response) == [role |-> "assistant", content |-> response]

\* the sessions whose call in progress still has its user entry in the
\* history of instance i
InFlight(i) == {s \in Busy(i) : turn[s].call \in Calls(i)}

\* C1: the history of a chatbot holds two entries for every call that began
\* since the history was last empty and has returned, one for every such call
\* that failed or is still running, and one for every call that began before
\* the history was emptied and returned after; so n returned calls on an
\* empty history leave exactly 2n entries, and clear_chat_history leaves 0.
HistoryLength ==
    \A i \in Instances :
        /\ Len(chat_history[i]) =
               2 * usage[i].returned + usage[i].failed + usage[i].stale
                   + Cardinality(InFlight(i))
        /\ Len(owner[i]) = Len(chat_history[i])
        /\ (\A s \in Sessions : session_chatbot[s] # i) => chat_history[i] = <<>>

\* two calls have returned on a history that was empty: four entries
HistoryLengthWitness ==
    \E i \in Instances :
        /\ usage[i] = [returned |-> 2, failed |-> 0, stale |-> 0]
        /\ Busy(i) = {}
        /\ Len(chat_history[i]) = 4

\* the call of session s has been alone on its instance since it began
Undisturbed(s) ==
    LET i == session_chatbot[s]
    IN  /\ Len(owner[i]) = Len(turn[s].before) + 1
        /\ owner[i][Len(owner[i])] = turn[s].call

SeenBy(t) == IF session_chatbot[t] = 0 THEN <<>> ELSE chat_history[session_chatbot[t]]

\* C3: an answer() or a clear_chat_history() of one session never changes the
\* history another session sees.
SessionsIsolated ==
    [][\A s \in Sessions : \A t \in Sessions \ {s} :
          ((\E q \in AppQueries : Submit(s, q)) \/ Finish(s) \/ ClearChat(s))
              => SeenBy(t)' = SeenBy(t)]_vars

\* C4: in every history, every assistant entry directly follows the user entry
\* of the same call.
CallsNeverOverlap ==
    \A i \in Instances : \A k \in 1..Len(chat_history[i]) :
        chat_history[i][k].role = "assistant" =>
            /\ k > 1
            /\ chat_history[i][k - 1].role = "user"
            /\ owner[i][k - 1] = owner[i][k]

\* the not-found message of a call, for the intents that have one
NotFoundMessage(intent) ==
    IF intent.type = "dietary" THEN DietaryNotFound(intent.preference)
    ELSE RestaurantNotFound(intent.restaurant)

\* C10: a dietary or restaurant_info call whose search found nothing answers
\* with the not-found message that names the preference or the restaurant and
\* makes no generator call; every other call that succeeds makes exactly one;
\* and in both cases the answer is appended as the assistant entry.
NotFoundSkipsGenerator ==
    /\ [](\A s \in Sessions : pc[s] = "responded" =>
            IF turn[s].intent.type \in {"dietary", "restaurant_info"} /\ turn[s].found = 0
            THEN /\ turn[s].response = NotFoundMessage(turn[s].intent)
                 /\ generator_calls(turn[s].entry) = 0
            ELSE generator_calls(turn[s].entry) = 1)
    /\ [][\A s \in Sessions : (pc[s] = "responded" /\ pc'[s] = "idle") =>
            /\ Len(chat_history'[session_chatbot[s]]) > 0
            /\ chat_history'[session_chatbot[s]][Len(chat_history'[session_chatbot[s]])]
                   = AssistantEntry(turn[s].response)]_vars

\* a dietary search that found nothing has been answered with the message
\* and recorded, and a restaurant search that found nothing is about to be
NotFoundSkipsGeneratorWitness ==
    \E s \in Sessions : \E i \in Instances :
        /\ pc[s] = "responded"
        /\ turn[s].intent.type = "restaurant_info"
        /\ turn[s].found = 0
        /\ Len(chat_history[i]) = 2
        /\ chat_history[i][2] =
               AssistantEntry(DietaryNotFound(<<"g", "l", "u", "t", "e", "n", "-", "f", "r", "e", "e">>))

(***************************************************************************)
(* Properties of intent classification (specification SpecIntent), stated   *)
(* over the phrases of the query.                                           *)
(***************************************************************************)
Mentions(p) == \E k \in 1..Len(arg) : arg[k] = p

PositionOf(p) == CHOOSE k \in 1..Len(arg) : arg[k] = p

\* the phrases made of letters and spaces only
LetterPhrases == {"Compare", "between", "and", "Burger Joint", "Taco Haven", "vegan", "hours"}

NamePhrases == {"Burger Joint", "Taco Haven"}

\* the query has `between`, then words, then `and`, then a word
BetweenPattern ==
    /\ Mentions("between") /\ Mentions("and")
    /\ PositionOf("between") + 1 < PositionOf("and")
    /\ PositionOf("and") < Len(arg)
    /\ \A k \in (PositionOf("between") + 1)..(PositionOf("and") - 1) : arg[k] \in LetterPhrases

\* the rules as the phrases of the query decide them
ComparisonMatches ==
    /\ Mentions("Compare")
    /\ BetweenPattern \/ (Mentions("Burger Joint") /\ Mentions("Taco Haven"))

DietaryMatches == Mentions("vegan") \/ Mentions("gluten-free")

MenuItemMatches == Mentions("items?")

RestaurantInfoMatches == Mentions("hours") /\ \E n \in NamePhrases : Mentions(n)

FirstMatch ==
    IF ComparisonMatches THEN "comparison"
    ELSE IF DietaryMatches THEN "dietary"
    ELSE IF MenuItemMatches THEN "menu_item"
    ELSE IF RestaurantInfoMatches THEN "restaurant_info"
    ELSE "generic"

\* C5: the intent of a query is that of the first rule, in the order
\* comparison, dietary, menu_item, restaurant_info, generic, that the query
\* matches; every query gets exactly one of these five intents.
FirstRuleWins ==
    result # NoResult =>
        /\ result.type = FirstMatch
        /\ result.type \in {"comparison", "dietary", "menu_item", "restaurant_info", "generic"}

\* a query matching the dietary, the menu and the restaurant rule is dietary
FirstRuleWinsWitness ==
    /\ arg = <<"Burger Joint", "hours", "items?", "vegan">>
    /\ result # NoResult
    /\ result.type = "dietary"

\* the query without its comparison keyword
WithoutKeyword == SelectSeq(arg, LAMBDA p : p # "Compare")

\* r and q are the same intent but for the raw query they carry
SameButQuery(r, q) ==
    /\ r.type = q.type
    /\ r.type = "dietary" => r.preference = q.preference
    /\ r.type = "restaurant_info" => r.restaurant = q.restaurant

\* C6: a comparison intent has a comparison keyword in its query and carries
\* at least 2 names; a query with the keyword and fewer than 2 names gets the
\* intent it would get without the keyword, carrying the query as it is.
ComparisonNeedsTwoNames ==
    result # NoResult =>
        /\ result.type = "comparison" =>
               Mentions("Compare") /\ Len(result.restaurants) >= 2
        /\ (Mentions("Compare") /\ ~ComparisonMatches) =>
               /\ SameButQuery(result, detect_intent(kb.documents, Text(WithoutKeyword)))
               /\ result.type \in {"menu_item", "generic"} => result.query = Text(arg)

\* a comparison keyword with one name only: the restaurant rule decides
ComparisonNeedsTwoNamesWitness ==
    /\ arg = <<"Compare", "Burger Joint", "hours">>
    /\ result = [type |-> "restaurant_info", restaurant |-> BurgerJoint]

\* C7: a query with a comparison keyword that contains `between X and Y`, X
\* and Y being restaurant names, is a comparison of exactly lower(X) and
\* lower(Y), in this order.
BetweenGivesTheTwoNames ==
    \A k \in 1..(Len(arg) - 3) :
        ( /\ result # NoResult
          /\ Mentions("Compare")
          /\ arg[k] = "between" /\ arg[k + 1] \in NamePhrases
          /\ arg[k + 2] = "and" /\ arg[k + 3] \in NamePhrases )
        => result = [type |-> "comparison",
                     restaurants |-> << Lower(Spelling[arg[k + 1]]), Lower(Spelling[arg[k + 3]]) >>]

\* C8: the preference of a dietary intent is the first term of the
\* vocabulary, in its order (vegan before gluten-free), that the query
\* contains, wherever the terms stand in the query.
FirstVocabularyTerm ==
    (result # NoResult /\ result.type = "dietary") =>
        result.preference = IF Mentions("vegan") THEN Spelling["vegan"]
                            ELSE Spelling["gluten-free"]

\* gluten-free stands before vegan in the query, vegan is the preference
FirstVocabularyTermWitness ==
    /\ arg = <<"gluten-free", "vegan">>
    /\ result = [type |-> "dietary", preference |-> Spelling["vegan"]]

\* the first restaurant of the store that the query names
FirstNamed == IF Mentions("Burger Joint") THEN BurgerJoint ELSE TacoHaven

\* C9: a query that no earlier rule takes is restaurant_info exactly when it
\* has a restaurant keyword and contains a known restaurant name, and then
\* carries the first such name of the store; with the keyword and no known
\* name it is generic and carries the raw query.
RestaurantInfoNeedsName ==
    (result # NoResult /\ ~ComparisonMatches /\ ~DietaryMatches /\ ~MenuItemMatches) =>
        /\ result.type = "restaurant_info" <=> RestaurantInfoMatches
        /\ RestaurantInfoMatches => result.restaurant = FirstNamed
        /\ ~RestaurantInfoMatches => result = [type |-> "generic", query |-> Text(arg)]

\* the keyword without a known name: generic, with the raw query
RestaurantInfoNeedsNameWitness ==
    /\ arg = <<"hours", "and">>
    /\ result = [type |-> "generic", query |-> Text(arg)]

(***************************************************************************)
(* Properties of the branches of answer (specification Spec).               *)
(***************************************************************************)
\* C11: a menu_item or generic call that ends with zero documents, after
\* retrieve_with_fallback, is answered by handle_no_results and not by
\* answer_query.
NoResultsPath ==
    \A s \in Sessions :
        ( /\ pc[s] = "responded"
          /\ turn[s].intent.type \in {"menu_item", "generic"}
          /\ turn[s].found = 0 )
        => turn[s].entry = "handle_no_results"

(***************************************************************************)
(* One call of answer as a function of the store and the query             *)
(* (specification SpecAnswer): lines 144-185 with everything a branch      *)
(* computes, the dict of the comparison branch included.                   *)
(***************************************************************************)
AnswerQueries ==
    AppQueries \cup
    { <<"Compare", "between", "Burger Joint", "and", "Taco Haven">>,
      <<"Compare", "between", "Taco Haven", "and", "Burger Joint">> }

InitAnswer ==
    /\ kb \in {KnowledgeBase, EmptyKnowledgeBase}
    /\ arg \in AnswerQueries
    /\ result = NoResult
    /\ AppInit

\* what lines 144-185 compute for the intent of the query
AnswerResults(store, query, intent) ==
    {[intent |-> intent] @@ out :
        out \in BranchOutcomes(store, query, intent, SearchOrders(store.ntotal))}

Answer ==
    /\ result = NoResult
    /\ result' \in AnswerResults(kb, Text(arg), detect_intent(kb.documents, Text(arg)))
    /\ UNCHANGED <<kb, arg>>
    /\ UNCHANGED appvars

NextAnswer == Answer

SpecAnswer == InitAnswer /\ [][NextAnswer]_vars

\* C12: a comparison call searches once for each of its names, in order, and
\* hands generate_comparison a mapping with an entry for every name holding
\* the documents of the search for that name; answer_query is not called.
ComparisonMapping ==
    (result # NoResult /\ result.intent.type = "comparison") =>
        LET names == result.intent.restaurants
        IN  /\ result.entry = "generate_comparison"
            /\ Len(result.searched) = Len(names)
            /\ \A k \in 1..Len(names) :
                   \E o \in SearchOrders(kb.ntotal) :
                       result.searched[k] = search_by_restaurant(kb, o, names[k])
            /\ DOMAIN result.restaurant_docs = {names[k] : k \in 1..Len(names)}
            /\ \A k \in 1..Len(names) :
                   (\A j \in (k + 1)..Len(names) : names[j] # names[k]) =>
                       result.restaurant_docs[names[k]] = result.searched[k]

\* a comparison whose first restaurant has documents and whose second has
\* none among the rows searched
ComparisonMappingWitness ==
    /\ result # NoResult
    /\ result.intent = [type |-> "comparison", restaurants |-> <<BurgerJoint, TacoHaven>>]
    /\ Len(result.restaurant_docs[BurgerJoint]) = DefaultTopK
    /\ result.restaurant_docs[TacoHaven] = <<>>

(***************************************************************************)
(* The retriever on the artifacts it can find on disk (specification        *)
(* SpecRetriever).  __init__ loads the four files without comparing them,   *)
(* so the stores below include artifacts that do not agree.  An empty cell  *)
(* of menu_items.csv is read by pandas as the float nan, written by         *)
(* json.dump as NaN and loaded as a float: NaN stands for that value, which *)
(* is no str.                                                               *)
(***************************************************************************)
NaN == <<"NaN">>

Vegan == <<"V", "e", "g", "a", "n">>

VeganSpicy == <<"s", "p", "i", "c", "y", ",", " ", "v", "e", "g", "a", "n">>

GlutenFree == <<"g", "l", "u", "t", "e", "n", "-", "f", "r", "e", "e">>

\* a menu_item document as create_menu_item_documents builds it
MenuItem(n, restaurant, dietary_info) ==
    [id |-> MenuItemIds[n + 1], type |-> "menu_item",
     metadata |-> [restaurant |-> restaurant, name |-> <<"F", "r", "i", "e", "s">>,
                   dietary_info |-> dietary_info]]

\* the artifacts save_knowledge_base writes for a list of documents
Saved(docs) ==
    [documents |-> docs,
     document_ids |-> [k \in 1..Len(docs) |-> docs[k].id],
     document_metadata |-> [d \in {docs[k].id : k \in 1..Len(docs)} |->
                               docs[CHOOSE k \in 1..Len(docs) : docs[k].id = d].metadata],
     ntotal |-> Len(docs)]

\* one restaurant with two items, and an item of a restaurant that has no
\* restaurant document
TaggedDocs ==
    << RestaurantDocs[1],
       MenuItem(0, BurgerJoint, Vegan),
       MenuItem(1, BurgerJoint, VeganSpicy),
       MenuItem(2, TacoHaven, GlutenFree) >>

\* the same with an item that has no dietary tag
UntaggedDocs ==
    << RestaurantDocs[1],
       MenuItem(0, BurgerJoint, Vegan),
       MenuItem(1, BurgerJoint, NaN),
       MenuItem(2, TacoHaven, GlutenFree) >>

\* one vegan item and one item with another tag
TwoItemDocs == << MenuItem(0, BurgerJoint, Vegan), MenuItem(1, BurgerJoint, GlutenFree) >>

\* one vegan item and one item without any tag
TwoItemUntaggedDocs == << MenuItem(0, BurgerJoint, Vegan), MenuItem(1, BurgerJoint, NaN) >>

\* stores whose four artifacts agree
ConsistentStores ==
    { Saved(TaggedDocs), Saved(UntaggedDocs), Saved(TwoItemDocs),
      Saved(TwoItemUntaggedDocs), EmptyKnowledgeBase }

\* documents.json without the record of the second row
MissingDocument ==
    [Saved(TaggedDocs) EXCEPT !.documents = <<TaggedDocs[1], TaggedDocs[3], TaggedDocs[4]>>]

\* documents.json without the records of the second and the third row
MissingTwoDocuments ==
    [Saved(TaggedDocs) EXCEPT !.documents = <<TaggedDocs[1], TaggedDocs[4]>>]

\* document_metadata.json without the entry of the second row
MissingMetadata ==
    [Saved(TaggedDocs) EXCEPT
        !.document_metadata = [d \in {TaggedDocs[1].id, TaggedDocs[3].id, TaggedDocs[4].id} |->
                                  Saved(TaggedDocs).document_metadata[d]]]

\* an index with one row more than the tables, and one with a row less
LargerIndex == [Saved(TwoItemDocs) EXCEPT !.ntotal = 3]

SmallerIndex == [Saved(TaggedDocs) EXCEPT !.ntotal = 3]

Stores ==
    ConsistentStores
    \cup {MissingDocument, MissingTwoDocuments, MissingMetadata, LargerIndex, SmallerIndex}

\* the four artifacts have the same size
SameSize(store) ==
    /\ store.ntotal = Len(store.documents)
    /\ store.ntotal = Len(store.document_ids)
    /\ store.ntotal = Cardinality(DOMAIN store.document_metadata)

\* the largest top_k considered
MaxTopK == 3

\* the orders in which the index can rank its rows: every permutation, with
\* distinct distances or with distances equal in pairs
RowOrders(n) ==
    {[i \in 1..n |-> [idx |-> p[i], distance |-> IF ties THEN (i - 1) \div 2 ELSE i - 1]] :
        p \in {q \in [1..n -> 1..n] : \A i, j \in 1..n : i # j => q[i] # q[j]},
        ties \in BOOLEAN}

\* retrieve_documents lines 101-102 for one hit: the exception it raises
HitError(store, hit) ==
    IF hit.idx > Len(store.document_ids) THEN "IndexError"
    ELSE IF store.document_ids[hit.idx] \notin DOMAIN store.document_metadata THEN "KeyError"
    ELSE "none"

\* the exception of the first hit that raises, "none" when none does
FirstError(store, hits) ==
    IF \A i \in 1..Len(hits) : HitError(store, hits[i]) = "none" THEN "none"
    ELSE HitError(store, hits[CHOOSE i \in 1..Len(hits) :
                                 /\ HitError(store, hits[i]) # "none"
                                 /\ \A j \in 1..(i - 1) : HitError(store, hits[j]) = "none"])

\* retrieve_documents: the exception that leaves it
retrieve_error(store, order, top_k) == FirstError(store, index_search(order, top_k))

\* what a call gives its caller: an exception or a list of documents
Returned(docs) == [error |-> "none", docs |-> docs]

Raised(error) == [error |-> error, docs |-> <<>>]

retrieve_outcome(store, order, top_k) ==
    IF retrieve_error(store, order, top_k) = "none"
    THEN Returned(retrieve_documents(store, order, top_k))
    ELSE Raised(retrieve_error(store, order, top_k))

search_by_restaurant_outcome(store, order, restaurant_name) ==
    IF retrieve_error(store, order, DefaultTopK) = "none"
    THEN Returned(search_by_restaurant(store, order, restaurant_name))
    ELSE Raised(retrieve_error(store, order, DefaultTopK))

search_menu_items_outcome(store, order, top_k) ==
    IF retrieve_error(store, order, top_k * 2) = "none"
    THEN Returned(search_menu_items(store, order, top_k))
    ELSE Raised(retrieve_error(store, order, top_k * 2))

\* search_dietary_options line 186: .lower() of a dietary_info that is no str
dietary_filter_error(results) ==
    IF \E i \in 1..Len(results) :
           /\ results[i].type = "menu_item"
           /\ "dietary_info" \in DOMAIN results[i].metadata
           /\ results[i].metadata.dietary_info = NaN
    THEN "AttributeError"
    ELSE "none"

search_dietary_options_outcome(store, order, dietary_preference_, top_k) ==
    IF retrieve_error(store, order, top_k * 3) # "none"
    THEN Raised(retrieve_error(store, order, top_k * 3))
    ELSE IF dietary_filter_error(retrieve_documents(store, order, top_k * 3)) # "none"
    THEN Raised(dietary_filter_error(retrieve_documents(store, order, top_k * 3)))
    ELSE Returned(search_dietary_options(store, order, dietary_preference_, top_k))

\* retrieve_with_fallback runs its second search (line 217)
second_search(store, order, query, top_k) ==
    /\ Len(retrieve_documents(store, order, top_k)) < top_k
    /\ key_terms_of(query) # <<>>

retrieve_with_fallback_outcome(store, order, simplified_order, query, top_k) ==
    IF retrieve_error(store, order, top_k) # "none"
    THEN Raised(retrieve_error(store, order, top_k))
    ELSE IF /\ second_search(store, order, query, top_k)
            /\ retrieve_error(store, simplified_order,
                              top_k - Len(retrieve_documents(store, order, top_k))) # "none"
    THEN Raised(retrieve_error(store, simplified_order,
                               top_k - Len(retrieve_documents(store, order, top_k))))
    ELSE Returned(retrieve_with_fallback(store, order, simplified_order, query, top_k))

SushiExpress == <<"S", "u", "s", "h", "i", " ", "E", "x", "p", "r", "e", "s", "s">>

\* the names, preferences and queries the calls are made with
SearchedNames == {BurgerJoint, Lower(BurgerJoint), TacoHaven, SushiExpress}

SearchedPreferences == {Spelling["vegan"], Vegan, GlutenFree}

TheMenu == <<"t", "h", "e", " ", "m", "e", "n", "u">>

FallbackQueries == {Text(<<"vegan", "items?">>), TheMenu}

\* the calls of the retriever on a store, each with the order or orders in
\* which the index ranks the rows for its query or queries
RetrieverCalls(store) ==
    {[op |-> "retrieve_documents", order |-> o, top_k |-> k] :
        o \in RowOrders(store.ntotal), k \in 1..MaxTopK}
    \cup {[op |-> "search_by_restaurant", order |-> o, restaurant_name |-> n] :
        o \in RowOrders(store.ntotal), n \in SearchedNames}
    \cup {[op |-> "search_menu_items", order |-> o, top_k |-> k] :
        o \in RowOrders(store.ntotal), k \in 1..MaxTopK}
    \cup {[op |-> "search_dietary_options", order |-> o, dietary_preference |-> d,
           top_k |-> k] :
        o \in RowOrders(store.ntotal), d \in SearchedPreferences, k \in 1..MaxTopK}
    \cup {[op |-> "retrieve_with_fallback", order |-> o[1], simplified_order |-> o[2],
           query |-> q, top_k |-> k] :
        o \in RowOrders(store.ntotal) \X RowOrders(store.ntotal),
        q \in FallbackQueries, k \in 1..MaxTopK}

InitRetriever ==
    /\ kb \in Stores
    /\ arg \in RetrieverCalls(kb)
    /\ result = NoResult
    /\ AppInit

Retrieve ==
    /\ result = NoResult
    /\ arg.op = "retrieve_documents"
    /\ result' = retrieve_outcome(kb, arg.order, arg.top_k)
    /\ UNCHANGED <<kb, arg>>
    /\ UNCHANGED appvars

SearchByRestaurant ==
    /\ result = NoResult
    /\ arg.op = "search_by_restaurant"
    /\ result' = search_by_restaurant_outcome(kb, arg.order, arg.restaurant_name)
    /\ UNCHANGED <<kb, arg>>
    /\ UNCHANGED appvars

SearchMenuItems ==
    /\ result = NoResult
    /\ arg.op = "search_menu_items"
    /\ result' = search_menu_items_outcome(kb, arg.order, arg.top_k)
    /\ UNCHANGED <<kb, arg>>
    /\ UNCHANGED appvars

SearchDietaryOptions ==
    /\ result = NoResult
    /\ arg.op = "search_dietary_options"
    /\ result' = search_dietary_options_outcome(kb, arg.order, arg.dietary_preference,
                                                arg.top_k)
    /\ UNCHANGED <<kb, arg>>
    /\ UNCHANGED appvars

RetrieveWithFallback ==
    /\ result = NoResult
    /\ arg.op = "retrieve_with_fallback"
    /\ result' = retrieve_with_fallback_outcome(kb, arg.order, arg.simplified_order,
                                                arg.query, arg.top_k)
    /\ UNCHANGED <<kb, arg>>
    /\ UNCHANGED appvars

NextRetriever ==
    \/ Retrieve
    \/ SearchByRestaurant
    \/ SearchMenuItems
    \/ SearchDietaryOptions
    \/ RetrieveWithFallback

SpecRetriever == InitRetriever /\ [][NextRetriever]_vars

(***************************************************************************)
(* Properties of the retriever (specification SpecRetriever).              *)
(***************************************************************************)
Called(op) == result # NoResult /\ arg.op = op

\* score a is at least score b, the scores being fractions
ScoreAtLeast(a, b) == a.num * b.den >= b.num * a.den

\* C13: retrieve_documents returns at most top_k documents, in the order of
\* the index, which is ascending distance and so non-increasing score; on a
\* store whose artifacts agree it returns exactly min(top_k, rows of the
\* index) documents, fewer than top_k only when the index holds fewer.
RetrieveBounded ==
    (Called("retrieve_documents") /\ result.error = "none") =>
        /\ Len(result.docs) <= arg.top_k
        /\ \A i, j \in 1..Len(result.docs) :
               i < j => ScoreAtLeast(result.docs[i].score, result.docs[j].score)
        /\ kb \in ConsistentStores =>
               /\ Len(result.docs) = Min(arg.top_k, kb.ntotal)
               /\ \A i \in 1..Len(result.docs) :
                      /\ result.docs[i].id = kb.document_ids[arg.order[i].idx]
                      /\ result.docs[i].score = [num |-> 1, den |-> 1 + arg.order[i].distance]

\* an index of two rows asked for three documents, two of them at the same
\* distance
RetrieveBoundedWitness ==
    /\ Called("retrieve_documents")
    /\ kb = Saved(TwoItemDocs)
    /\ arg.top_k = 3
    /\ Len(result.docs) = 2
    /\ result.docs[1].score = result.docs[2].score

\* the ids of a list of documents
IdsOf(docs) == {docs[i].id : i \in 1..Len(docs)}

\* C14: retrieve_with_fallback never returns more than top_k documents, never
\* two documents with the same id, and never fewer documents than
\* retrieve_documents returns for the same query and top_k.
FallbackBounded ==
    (Called("retrieve_with_fallback") /\ result.error = "none") =>
        /\ Len(result.docs) <= arg.top_k
        /\ \A i, j \in 1..Len(result.docs) : i # j => result.docs[i].id # result.docs[j].id
        /\ Len(result.docs) >= Len(retrieve_documents(kb, arg.order, arg.top_k))

\* the first search skips a row and the second search supplies a document
FallbackBoundedWitness ==
    /\ Called("retrieve_with_fallback")
    /\ kb = MissingDocument
    /\ result.error = "none"
    /\ arg.top_k = 3
    /\ Len(retrieve_documents(kb, arg.order, arg.top_k)) = 2
    /\ Len(result.docs) = 3

\* C15: when retrieve_documents returns fewer than top_k documents and key
\* terms remain, the result of retrieve_with_fallback has top_k documents or
\* holds every document the simplified query can supply.
FallbackFillsUp ==
    ( /\ Called("retrieve_with_fallback")
      /\ result.error = "none"
      /\ second_search(kb, arg.order, arg.query, arg.top_k)
      /\ retrieve_error(kb, arg.simplified_order, kb.ntotal) = "none" )
    => \/ Len(result.docs) = arg.top_k
       \/ IdsOf(retrieve_documents(kb, arg.simplified_order, kb.ntotal))
              \subseteq IdsOf(result.docs)

\* doc is a document of the restaurant called name
OfRestaurant(doc, name) ==
    \/ doc.type = "restaurant" /\ Lower(doc.metadata.name) = Lower(name)
    \/ doc.type = "menu_item" /\ Lower(doc.metadata.restaurant) = Lower(name)

\* C16: on a store whose artifacts agree, search_by_restaurant does not
\* raise and returns the documents of that restaurant, compared without
\* regard to case, and no other; for a name no document bears it returns the
\* empty list, also when the store has a menu item of a restaurant that has
\* no restaurant document.
ByRestaurantOnly ==
    (Called("search_by_restaurant") /\ kb \in ConsistentStores) =>
        /\ result.error = "none"
        /\ \A i \in 1..Len(result.docs) : OfRestaurant(result.docs[i], arg.restaurant_name)
        /\ IdsOf(result.docs) =
               {kb.documents[k].id : k \in {j \in 1..Len(kb.documents) :
                    OfRestaurant(kb.documents[j], arg.restaurant_name)}}

\* a restaurant without a restaurant document is found by its menu item, in
\* the case the query gives, and an unknown one gives the empty list
ByRestaurantOnlyWitness ==
    /\ Called("search_by_restaurant")
    /\ kb = Saved(TaggedDocs)
    /\ \/ arg.restaurant_name = SushiExpress /\ result = Returned(<<>>)
       \/ arg.restaurant_name = TacoHaven /\ Len(result.docs) = 1

\* the positions of the menu items among the candidates
MenuPositions(candidates) == {i \in 1..Len(candidates) : candidates[i].type = "menu_item"}

\* C17: search_menu_items returns the first top_k menu_item documents, in
\* retrieval order, of the 2 * top_k candidates it retrieves: no restaurant
\* document and never more than top_k.
MenuItemsFirstTopK ==
    (Called("search_menu_items") /\ result.error = "none") =>
        LET candidates == retrieve_documents(kb, arg.order, 2 * arg.top_k)
        IN  /\ Len(result.docs) = Min(arg.top_k, Cardinality(MenuPositions(candidates)))
            /\ \A j \in 1..Len(result.docs) :
                   /\ result.docs[j].type = "menu_item"
                   /\ \E i \in MenuPositions(candidates) :
                          /\ Cardinality({h \in MenuPositions(candidates) : h < i}) = j - 1
                          /\ result.docs[j] = candidates[i]

\* two candidates, both menu items, one returned
MenuItemsFirstTopKWitness ==
    /\ Called("search_menu_items")
    /\ kb = Saved(TaggedDocs)
    /\ arg.top_k = 1
    /\ Cardinality(MenuPositions(retrieve_documents(kb, arg.order, 2))) = 2
    /\ Len(result.docs) = 1

\* C18: on a store whose artifacts agree, search_dietary_options returns
\* only menu items whose dietary_info contains the preference, compared
\* without regard to case, and at most top_k of them; on a store of one vegan
\* item and one item that is not vegan, the search for vegan returns exactly
\* the vegan item.
DietaryOnlyMatching ==
    (Called("search_dietary_options") /\ kb \in ConsistentStores) =>
        /\ result.error = "none"
        /\ Len(result.docs) <= arg.top_k
        /\ \A i \in 1..Len(result.docs) :
               /\ result.docs[i].type = "menu_item"
               /\ Contains(Lower(result.docs[i].metadata.dietary_info),
                           Lower(arg.dietary_preference))
        /\ ( /\ kb \in {Saved(TwoItemDocs), Saved(TwoItemUntaggedDocs)}
             /\ Lower(arg.dietary_preference) = Spelling["vegan"] )
           => IdsOf(result.docs) = {MenuItemIds[1]}

\* the ids of the rows a search of the index returns
HitIds(store, order, top_k) ==
    [i \in 1..Len(index_search(order, top_k)) |->
        store.document_ids[index_search(order, top_k)[i].idx]]

\* C19: when the index returns an id that has no document record or no
\* metadata entry, retrieve_documents does not raise and returns the other
\* hits in their order.
SkipsAbsentIds ==
    (Called("retrieve_documents") /\ kb \in {MissingDocument, MissingMetadata}) =>
        /\ result.error = "none"
        /\ [i \in 1..Len(result.docs) |-> result.docs[i].id] =
               SelectSeq(HitIds(kb, arg.order, arg.top_k), LAMBDA d : d # TaggedDocs[2].id)

\* C20: a store whose index and tables differ in size fails with
\* IndexUnavailable; on a store whose artifacts agree retrieve_documents
\* never raises.
SizeMismatchDetected ==
    result # NoResult =>
        /\ ~SameSize(kb) => result.error = "IndexUnavailable"
        /\ (SameSize(kb) /\ arg.op = "retrieve_documents") => result.error = "none"

(***************************************************************************)
(* ResponseGenerator.format_documents_for_prompt and the context of        *)
(* generate_comparison (specification SpecPrompt).  A line of the context  *)
(* is kept as its label and the metadata values the f-string interpolates. *)
(***************************************************************************)
\* the largest number of documents handed to the generator
MaxDocs == 2

\* ord() of the characters of the type names
Ord(c) == IF c = "_" THEN 95 ELSE 96 + CHOOSE i \in 1..26 : LowerCase[i] = c

\* a < b for two str
StrLess(a, b) ==
    \E i \in 1..(Len(b)) :
        /\ \A j \in 1..(i - 1) : j <= Len(a) /\ a[j] = b[j]
        /\ \/ i = Len(a) + 1
           \/ i <= Len(a) /\ Ord(a[i]) < Ord(b[i])

\* the str of a document type
TypeChars(type) ==
    IF type = "restaurant"
    THEN <<"r", "e", "s", "t", "a", "u", "r", "a", "n", "t">>
    ELSE <<"m", "e", "n", "u", "_", "i", "t", "e", "m">>

ScoreLess(a, b) == a.num * b.den < b.num * a.den

\* line 49: the key (-score, type) of a sorts before the key of b
KeyLess(a, b) ==
    \/ ScoreLess(b.score, a.score)
    \/ /\ ~ScoreLess(a.score, b.score)
       /\ StrLess(TypeChars(a.type), TypeChars(b.type))

\* d put into the sorted list s behind every element whose key is not larger
Insert(s, d) ==
    LET n == Cardinality({i \in 1..Len(s) : ~KeyLess(d, s[i])})
    IN  SubSeq(s, 1, n) \o <<d>> \o SubSeq(s, n + 1, Len(s))

RECURSIVE sorted_docs(_)
\* line 49: sorted(documents, key=...), a stable sort
sorted_docs(documents) ==
    IF documents = <<>> THEN <<>>
    ELSE Insert(sorted_docs(SubSeq(documents, 1, Len(documents) - 1)),
                documents[Len(documents)])

\* metadata.get(field) is true: the field is there and is no empty str
Truthy(metadata, field) == field \in DOMAIN metadata /\ metadata[field] # <<>>

Line(label, values) == [label |-> label, values |-> values]

\* the line of an optional field, when metadata.get(field) is true
OptionalLine(metadata, field, label) ==
    IF Truthy(metadata, field) THEN <<Line(label, <<metadata[field]>>)>> ELSE <<>>

\* lines 58-60 and 70: the subscripts of a document that raise KeyError
render_error(doc) ==
    IF doc.type = "restaurant"
    THEN IF "name" \notin DOMAIN doc.metadata THEN "KeyError"
         ELSE IF /\ Truthy(doc.metadata, "address")
                 /\ ~({"city", "state"} \subseteq DOMAIN doc.metadata)
         THEN "KeyError"
         ELSE "none"
    ELSE IF ~({"restaurant", "name"} \subseteq DOMAIN doc.metadata) THEN "KeyError"
    ELSE "none"

\* lines 57-79: the lines of one document
render_document(doc) ==
    IF doc.type = "restaurant"
    THEN <<Line("Restaurant Information", <<doc.metadata.name>>)>>
         \o (IF Truthy(doc.metadata, "address")
             THEN <<Line("Address", <<doc.metadata.address, doc.metadata.city,
                                      doc.metadata.state>>)>>
             ELSE <<>>)
         \o OptionalLine(doc.metadata, "hours", "Hours")
         \o OptionalLine(doc.metadata, "special_features", "Special Features")
         \o OptionalLine(doc.metadata, "phone", "Contact")
         \o <<Line("", <<>>)>>
    ELSE <<Line("Menu Item", <<doc.metadata.restaurant, doc.metadata.name>>)>>
         \o OptionalLine(doc.metadata, "price", "Price")
         \o OptionalLine(doc.metadata, "description", "Description")
         \o OptionalLine(doc.metadata, "section", "Section")
         \o OptionalLine(doc.metadata, "dietary_info", "Dietary Info")
         \o <<Line("", <<>>)>>

RECURSIVE render_documents(_)
\* lines 53-79: the lines of the documents, in their order
render_documents(docs) ==
    IF docs = <<>> THEN <<>>
    ELSE render_document(Head(docs)) \o render_documents(Tail(docs))

\* lines 35-81
format_documents_for_prompt(documents) ==
    IF documents = <<>>
    THEN [error |-> "none", sorted_docs |-> <<>>,
          context_parts |-> <<Line("No relevant information found.", <<>>)>>]
    ELSE IF \E i \in 1..Len(documents) : render_error(documents[i]) # "none"
    THEN [error |-> "KeyError", sorted_docs |-> sorted_docs(documents), context_parts |-> <<>>]
    ELSE [error |-> "none", sorted_docs |-> sorted_docs(documents),
          context_parts |-> render_documents(sorted_docs(documents))]

\* line 214 and 221: the documents of a type
OfType(docs, type) == SelectSeq(docs, LAMBDA doc : doc.type = type)

\* lines 224-231: the line of a menu item
item_text(metadata) ==
    Line("-", <<metadata.name>>
              \o (IF Truthy(metadata, "price") THEN <<metadata.price>> ELSE <<>>)
              \o (IF Truthy(metadata, "dietary_info") THEN <<metadata.dietary_info>> ELSE <<>>))

\* lines 208-231 for the documents of the restaurants given, all under
\* restaurant_name
generate_comparison(restaurant_name, docs) ==
    IF \E i \in 1..Len(Prefix(OfType(docs, "menu_item"), 5)) :
           "name" \notin DOMAIN OfType(docs, "menu_item")[i].metadata
    THEN [error |-> "KeyError", sorted_docs |-> <<>>, context_parts |-> <<>>]
    ELSE [error |-> "none", sorted_docs |-> <<>>,
          context_parts |->
              <<Line("---", <<restaurant_name>>)>>
              \o (IF OfType(docs, "restaurant") # <<>>
                  THEN OptionalLine(OfType(docs, "restaurant")[1].metadata,
                                    "special_features", "Special Features")
                  ELSE <<>>)
              \o (IF OfType(docs, "menu_item") # <<>>
                  THEN <<Line("Menu Items:", <<>>)>>
                       \o [i \in 1..Len(Prefix(OfType(docs, "menu_item"), 5)) |->
                              item_text(OfType(docs, "menu_item")[i].metadata)]
                  ELSE <<>>)]

MainStreet == <<"1", " ", "M", "a", "i", "n">>

Austin == <<"A", "u", "s", "t", "i", "n">>

Texas == <<"T", "X">>

Fries == <<"F", "r", "i", "e", "s">>

Price == <<"$", "3">>

\* metadata of restaurant documents: as create_restaurant_documents writes
\* it, with an address but no city or state, without name, and with an
\* empty value
RestaurantMetadata ==
    { [name |-> BurgerJoint, address |-> MainStreet, city |-> Austin, state |-> Texas,
       special_features |-> NaN],
      [name |-> BurgerJoint, address |-> MainStreet],
      [address |-> MainStreet, city |-> Austin, state |-> Texas],
      [name |-> TacoHaven, hours |-> <<>>] }

\* metadata of menu_item documents: as create_menu_item_documents writes it,
\* for an item without dietary tags, without restaurant and without name
MenuItemMetadata ==
    { [restaurant |-> BurgerJoint, name |-> Fries, price |-> Price, dietary_info |-> Vegan],
      [restaurant |-> BurgerJoint, name |-> Fries, price |-> Price, dietary_info |-> NaN],
      [name |-> Fries, price |-> Price],
      [restaurant |-> BurgerJoint, price |-> Price] }

\* results of a search: documents with the scores of distance 0 and 1
ScoredDocs ==
    { [type |-> "restaurant", metadata |-> m, score |-> [num |-> 1, den |-> d]] :
        m \in RestaurantMetadata, d \in 1..2 }
    \cup { [type |-> "menu_item", metadata |-> m, score |-> [num |-> 1, den |-> d]] :
        m \in MenuItemMetadata, d \in 1..2 }

DocLists == UNION {[1..n -> ScoredDocs] : n \in 0..MaxDocs}

PromptCalls ==
    {[op |-> "format_documents_for_prompt", documents |-> docs] : docs \in DocLists}
    \cup {[op |-> "generate_comparison", restaurant_name |-> BurgerJoint, documents |-> docs] :
             docs \in DocLists}

InitPrompt ==
    /\ kb = EmptyKnowledgeBase
    /\ arg \in PromptCalls
    /\ result = NoResult
    /\ AppInit

FormatDocuments ==
    /\ result = NoResult
    /\ arg.op = "format_documents_for_prompt"
    /\ result' = format_documents_for_prompt(arg.documents)
    /\ UNCHANGED <<kb, arg>>
    /\ UNCHANGED appvars

GenerateComparison ==
    /\ result = NoResult
    /\ arg.op = "generate_comparison"
    /\ result' = generate_comparison(arg.restaurant_name, arg.documents)
    /\ UNCHANGED <<kb, arg>>
    /\ UNCHANGED appvars

NextPrompt == FormatDocuments \/ GenerateComparison

SpecPrompt == InitPrompt /\ [][NextPrompt]_vars

\* C21: the context block lists the documents by descending score, and of
\* two documents of equal score a restaurant comes before a menu item.
ContextOrder ==
    (Called("format_documents_for_prompt") /\ result.error = "none") =>
        \A i, j \in 1..Len(result.sorted_docs) :
            i < j =>
                /\ ~ScoreLess(result.sorted_docs[i].score, result.sorted_docs[j].score)
                /\ ( /\ ~ScoreLess(result.sorted_docs[j].score, result.sorted_docs[i].score)
                     /\ result.sorted_docs[j].type = "restaurant" )
                   => result.sorted_docs[i].type = "restaurant"

\* C22: rendering documents that lack metadata fields never raises, neither
\* in format_documents_for_prompt nor in generate_comparison, and no line
\* of the context carries an empty value.
RendersWithoutFields ==
    result # NoResult =>
        /\ result.error = "none"
        /\ \A i \in 1..Len(result.context_parts) :
               \A k \in 1..Len(result.context_parts[i].values) :
                   result.context_parts[i].values[k] # <<>>

(***************************************************************************)
(* ResponseGenerator._clean_response as a function of the raw text         *)
(* (specification SpecClean).                                              *)
(***************************************************************************)
\* the largest number of tokens of a raw text
MaxTokens == 4

AnswerEcho == <<"A", "n", "s", "w", "e", "r", ":">>

\* line 152: re.sub(r'^Answer:\s*', '', response)
strip_answer_echo(response) ==
    IF MatchAt(response, AnswerEcho, 1)
    THEN SubSeq(response,
                Len(AnswerEcho) + RunLength(response, Len(AnswerEcho) + 1, "space") + 1,
                Len(response))
    ELSE response

\* line 155: re.sub(r'\s+', ' ', response)
collapse_whitespace(response) ==
    LET kept == SelectSeq([i \in 1..Len(response) |-> i],
                          LAMBDA i : ~IsSpace(response[i]) \/ i = 1 \/ ~IsSpace(response[i - 1]))
    IN  [k \in 1..Len(kept) |-> IF IsSpace(response[kept[k]]) THEN " " ELSE response[kept[k]]]

\* lines 141-157
clean_response(response) == Strip(collapse_whitespace(strip_answer_echo(response)))

\* what the language model can put into a text
Tokens == <<AnswerEcho, <<" ">>, <<"\n">>, <<"Y", "e", "s">>>>

RECURSIVE Joined(_)
\* the text of a sequence of token numbers
Joined(ts) == IF ts = <<>> THEN <<>> ELSE Tokens[Head(ts)] \o Joined(Tail(ts))

RawTexts == {Joined(ts) : ts \in UNION {[1..n -> 1..Len(Tokens)] : n \in 0..MaxTokens}}

InitClean ==
    /\ kb = EmptyKnowledgeBase
    /\ arg \in RawTexts
    /\ result = NoResult
    /\ AppInit

\* generate_response line 137
Clean ==
    /\ result = NoResult
    /\ result' = [response |-> clean_response(arg), cleaned |-> 1]
    /\ UNCHANGED <<kb, arg>>
    /\ UNCHANGED appvars

\* _clean_response given the text it returned
CleanAgain ==
    /\ result # NoResult
    /\ result.cleaned = 1
    /\ result' = [response |-> clean_response(result.response), cleaned |-> 2,
                  first |-> result.response]
    /\ UNCHANGED <<kb, arg>>
    /\ UNCHANGED appvars

NextClean == Clean \/ CleanAgain

SpecClean == InitClean /\ [][NextClean]_vars

\* C23: the text the generator returns does not start with "Answer:", has
\* no two whitespace characters in a row and no whitespace at either end.
CleanedText ==
    (result # NoResult /\ result.cleaned = 1) =>
        /\ ~MatchAt(result.response, AnswerEcho, 1)
        /\ \A i \in 1..(Len(result.response) - 1) :
               ~(IsSpace(result.response[i]) /\ IsSpace(result.response[i + 1]))
        /\ result.response # <<>> =>
               /\ ~IsSpace(result.response[1])
               /\ ~IsSpace(result.response[Len(result.response)])

\* C30: cleaning a cleaned text gives the same text.
CleanIdempotent ==
    (result # NoResult /\ result.cleaned = 2) => result.response = result.first

(***************************************************************************)
(* Properties of the prompt history and of the sequence of entries         *)
(* (specification Spec).                                                    *)
(***************************************************************************)
\* the last min(3, length) entries of a history
LastThree(history) ==
    [k \in 1..Min(3, Len(history)) |-> history[Len(history) - Min(3, Len(history)) + k]]

\* C24: when a call hands the history to the generator, the prompt gets
\* exactly the last min(3, length) entries of the history of that moment,
\* and the last of them is the user entry of the query of this call.
PromptWindow ==
    [][\A s \in Sessions :
          (pc[s] = "answering" /\ pc'[s] = "responded" /\ turn'[s].entry = "answer_query") =>
              /\ turn'[s].context = LastThree(chat_history[session_chatbot[s]])
              /\ turn'[s].context[Len(turn'[s].context)] = UserEntry(turn[s].query)]_vars

(***************************************************************************)
(* KnowledgeBaseBuilder.build_knowledge_base as a function of the rows of  *)
(* restaurants.csv and menu_items.csv (specification SpecBuild).           *)
(***************************************************************************)
\* the largest number of rows of a table
MaxRows == 2

\* f"restaurant_{len(documents)}" for len(documents) = 0, 1, ...
RestaurantIds == << "restaurant_0", "restaurant_1", "restaurant_2" >>

\* lines 74-107: one document per row, numbered by the documents before it
create_restaurant_documents(restaurants_df) ==
    [k \in 1..Len(restaurants_df) |->
        [id |-> RestaurantIds[k], type |-> "restaurant", metadata |-> restaurants_df[k]]]

\* menu item documents numbered with the ids of the restaurant documents
create_menu_item_documents_as_restaurants(menu_items_df) ==
    [k \in 1..Len(menu_items_df) |->
        [id |-> RestaurantIds[k], type |-> "menu_item", metadata |-> menu_items_df[k]]]

\* lines 109-139
create_menu_item_documents(menu_items_df) ==
    [k \in 1..Len(menu_items_df) |->
        [id |-> MenuItemIds[k], type |-> "menu_item", metadata |-> menu_items_df[k]]]

\* lines 141-152
create_combined_documents(restaurant_docs, menu_item_docs) == restaurant_docs \o menu_item_docs

\* lines 155-169: one embedding per document, in the order of the documents;
\* an embedding is kept as the id of the document whose content it encodes
create_document_embeddings(documents) ==
    [k \in 1..Len(documents) |-> [content_of |-> documents[k].id]]

\* lines 171-191: IndexFlatL2.add keeps the order of the embeddings
build_faiss_index(embeddings) == embeddings

\* lines 194-220: the four artifacts; in the dict of line 212 a later
\* document replaces an earlier one of the same id
save_knowledge_base(index, documents) ==
    [index |-> index,
     documents |-> documents,
     document_ids |-> [k \in 1..Len(documents) |-> documents[k].id],
     document_metadata |->
         [d \in {documents[k].id : k \in 1..Len(documents)} |->
             documents[CHOOSE k \in 1..Len(documents) :
                          /\ documents[k].id = d
                          /\ \A j \in (k + 1)..Len(documents) : documents[j].id # d].metadata]]

\* lines 238-248, all_docs being the combined documents: without documents
\* embeddings.shape[1] of line 183 raises IndexError and nothing is saved
build_from(all_docs) ==
    IF all_docs = <<>>
    THEN [error |-> "IndexError"]
    ELSE [error |-> "none",
          saved |-> save_knowledge_base(build_faiss_index(create_document_embeddings(all_docs)),
                                        all_docs)]

\* lines 225-250
build_knowledge_base(menu_items_df, restaurants_df) ==
    build_from(create_combined_documents(create_restaurant_documents(restaurants_df),
                                         create_menu_item_documents(menu_items_df)))

\* rows of restaurants.csv and of menu_items.csv as load_processed_data reads
\* them
RestaurantRows == { [name |-> BurgerJoint], [name |-> TacoHaven] }

MenuItemRows ==
    { [restaurant |-> BurgerJoint, name |-> Fries, dietary_info |-> Vegan],
      [restaurant |-> BurgerJoint, name |-> Fries, dietary_info |-> NaN],
      [restaurant |-> TacoHaven, name |-> Fries, dietary_info |-> GlutenFree] }

Tables(rows) == UNION {[1..n -> rows] : n \in 0..MaxRows}

InitBuild ==
    /\ kb = EmptyKnowledgeBase
    /\ arg \in {[menu_items_df |-> m, restaurants_df |-> r] :
                   m \in Tables(MenuItemRows), r \in Tables(RestaurantRows)}
    /\ result = NoResult
    /\ AppInit

Build ==
    /\ result = NoResult
    /\ result' = build_knowledge_base(arg.menu_items_df, arg.restaurants_df)
    /\ UNCHANGED <<kb, arg>>
    /\ UNCHANGED appvars

NextBuild == Build

SpecBuild == InitBuild /\ [][NextBuild]_vars

\* C25: the artifacts a build saves agree: index, id list, documents and
\* metadata lookup have the same number of entries, the i-th id is the id of
\* the i-th document and of the document of the i-th index row, the lookup
\* holds the metadata of every document, and no two documents share an id.
ArtifactsConsistent ==
    (result # NoResult /\ result.error = "none") =>
        /\ Len(result.saved.index) = Len(result.saved.documents)
        /\ Len(result.saved.document_ids) = Len(result.saved.documents)
        /\ Cardinality(DOMAIN result.saved.document_metadata) = Len(result.saved.documents)
        /\ \A i \in 1..Len(result.saved.documents) :
               /\ result.saved.document_ids[i] = result.saved.documents[i].id
               /\ result.saved.index[i].content_of = result.saved.document_ids[i]
               /\ result.saved.document_metadata[result.saved.document_ids[i]] =
                      result.saved.documents[i].metadata
        /\ \A i, j \in 1..Len(result.saved.documents) :
               result.saved.documents[i].id = result.saved.documents[j].id => i = j

\* a build from two restaurants, one of them twice in the table, and two
\* menu items
ArtifactsConsistentWitness ==
    /\ result # NoResult
    /\ result.error = "none"
    /\ Len(arg.restaurants_df) = 2
    /\ arg.restaurants_df[1] = arg.restaurants_df[2]
    /\ Len(arg.menu_items_df) = 2
    /\ Len(result.saved.documents) = 4

(***************************************************************************)
(* One RAGChatbot used by one caller, call after call (specification       *)
(* SpecSession): arg is the sequence of the calls made so far, result the  *)
(* sequence of what they gave, chat_history[1] the history of the chatbot  *)
(* and kb the fields of its retriever.                                     *)
(***************************************************************************)
\* the largest number of calls of a session
MaxSteps == 3

\* a retrieve_documents that takes the documents it returns out of
\* self.documents
store_after_retrieve_consuming(store, order, top_k) ==
    [store EXCEPT !.documents =
        SelectSeq(store.documents,
                  LAMBDA doc : \A i \in 1..Len(index_search(order, top_k)) :
                      index_search(order, top_k)[i].idx > Len(store.document_ids)
                      \/ store.document_ids[index_search(order, top_k)[i].idx] # doc.id)]

\* retrieve_documents lines 92-116: the fields of the retriever after the
\* call.  The index is searched and document_ids, document_metadata and
\* documents are read; no statement assigns or changes one of them, and the
\* results are new dicts.
store_after_retrieve(store, order, top_k) == store

\* the rankings of the index for the queries of the session
SessionOrders(n) ==
    {o \in SearchOrders(n) : n = 0 \/ o[1].idx <= 2}

\* the retriever operations of the session
SessionCalls(store) ==
    {[op |-> "retrieve_documents", order |-> o, top_k |-> k] :
        o \in SessionOrders(store.ntotal), k \in 1..MaxTopK}
    \cup {[op |-> "search_by_restaurant", order |-> o, restaurant_name |-> BurgerJoint] :
        o \in SessionOrders(store.ntotal)}
    \cup {[op |-> "search_menu_items", order |-> o, top_k |-> MaxTopK] :
        o \in SessionOrders(store.ntotal)}
    \cup {[op |-> "search_dietary_options", order |-> o, dietary_preference |-> Vegan,
           top_k |-> MaxTopK] :
        o \in SessionOrders(store.ntotal)}
    \cup {[op |-> "retrieve_with_fallback", order |-> o, simplified_order |-> o,
           query |-> Text(<<"vegan", "items?">>), top_k |-> MaxTopK] :
        o \in SessionOrders(store.ntotal)}

\* what a retriever operation gives
call_outcome(store, c) ==
    CASE c.op = "retrieve_documents" -> retrieve_outcome(store, c.order, c.top_k)
      [] c.op = "search_by_restaurant" ->
             search_by_restaurant_outcome(store, c.order, c.restaurant_name)
      [] c.op = "search_menu_items" -> search_menu_items_outcome(store, c.order, c.top_k)
      [] c.op = "search_dietary_options" ->
             search_dietary_options_outcome(store, c.order, c.dietary_preference, c.top_k)
      [] OTHER -> retrieve_with_fallback_outcome(store, c.order, c.simplified_order,
                                                 c.query, c.top_k)

\* the top_k of the retrieve_documents call of a retriever operation
\* (lines 133, 157, 180, 204)
searched_top_k(c) ==
    CASE c.op = "search_by_restaurant" -> DefaultTopK
      [] c.op = "search_menu_items" -> c.top_k * 2
      [] c.op = "search_dietary_options" -> c.top_k * 3
      [] OTHER -> c.top_k

InitSession ==
    /\ kb \in {KnowledgeBase, EmptyKnowledgeBase}
    /\ arg = <<>>
    /\ result = <<>>
    /\ AppInit

\* a retriever operation
SessionSearch(c) ==
    /\ Len(arg) < MaxSteps
    /\ arg' = Append(arg, c)
    /\ result' = Append(result, call_outcome(kb, c))
    /\ kb' = store_after_retrieve(kb, c.order, searched_top_k(c))
    /\ UNCHANGED appvars

\* rag_chatbot.py 130-190: an answer() that returns
SessionAnswer(q) ==
    /\ Len(arg) < MaxSteps
    /\ \E out \in answer_outcomes(kb, Text(q)) :
          /\ chat_history' =
                 [chat_history EXCEPT ![1] =
                     add_message_to_history(
                         add_message_to_history(@, "user", Text(q)),
                         "assistant", out.response)]
          /\ result' = Append(result, [error |-> "none", response |-> out.response])
    /\ arg' = Append(arg, [op |-> "answer", query |-> Text(q)])
    /\ UNCHANGED <<kb, cache, session_chatbot, pc, turn, owner, ncalls, usage>>

\* rag_chatbot.py 141-185: an answer() that a failing embedding model, index
\* or language model leaves by an exception
SessionAnswerRaises(q) ==
    /\ Len(arg) < MaxSteps
    /\ chat_history' = [chat_history EXCEPT ![1] = add_message_to_history(@, "user", Text(q))]
    /\ arg' = Append(arg, [op |-> "answer", query |-> Text(q)])
    /\ result' = Append(result, [error |-> "UpstreamFailure"])
    /\ UNCHANGED <<kb, cache, session_chatbot, pc, turn, owner, ncalls, usage>>

\* rag_chatbot.py 57-59
SessionClear ==
    /\ Len(arg) < MaxSteps
    /\ chat_history' = [chat_history EXCEPT ![1] = clear_chat_history(@)]
    /\ arg' = Append(arg, [op |-> "clear_chat_history"])
    /\ result' = Append(result, [error |-> "none"])
    /\ UNCHANGED <<kb, cache, session_chatbot, pc, turn, owner, ncalls, usage>>

NextSession ==
    \/ \E c \in SessionCalls(kb) : SessionSearch(c)
    \/ \E q \in AppQueries : SessionAnswer(q)
    \/ \E q \in AppQueries : SessionAnswerRaises(q)
    \/ SessionClear

SpecSession == InitSession /\ [][NextSession]_vars

LastClear ==
    IF \E k \in 1..Len(arg) : arg[k].op = "clear_chat_history"
    THEN CHOOSE k \in 1..Len(arg) :
             /\ arg[k].op = "clear_chat_history"
             /\ \A j \in (k + 1)..Len(arg) : arg[j].op # "clear_chat_history"
    ELSE 0

\* the positions of the answer() calls since the history was last emptied
AnswersSinceClear ==
    SelectSeq([k \in 1..Len(arg) |-> k], LAMBDA k : k > LastClear /\ arg[k].op = "answer")

\* C28: when every answer() since the history was last emptied has returned,
\* the history holds, for the n-th of these calls, the user entry of its
\* query at place 2n-1 and the assistant entry of the text it returned at
\* place 2n, and nothing else.
HistoryAlternates ==
    (\A n \in 1..Len(AnswersSinceClear) : result[AnswersSinceClear[n]].error = "none") =>
        /\ Len(chat_history[1]) = 2 * Len(AnswersSinceClear)
        /\ \A n \in 1..Len(AnswersSinceClear) :
               /\ chat_history[1][2 * n - 1] = UserEntry(arg[AnswersSinceClear[n]].query)
               /\ chat_history[1][2 * n] =
                      AssistantEntry(result[AnswersSinceClear[n]].response)

\* two calls with different queries have returned after a clear
HistoryAlternatesWitness ==
    /\ Len(arg) = 3
    /\ arg[1].op = "clear_chat_history"
    /\ Len(AnswersSinceClear) = 2
    /\ arg[2].query # arg[3].query
    /\ result[2].error = "none"
    /\ result[3].error = "none"
    /\ result[2].response # result[3].response
    /\ Len(chat_history[1]) = 4

(***************************************************************************)
(* Further properties of the retriever (specification SpecRetriever) and   *)
(* of the intent (specification SpecIntent).                               *)
(***************************************************************************)
\* every token of the lower-cased query is a stopword
OnlyStopwords(query) ==
    \A k \in 1..Len(Split(Lower(query))) : Split(Lower(query))[k] \in stopwords

\* the place of the document id in a ranking of the rows of the store
RankOf(store, order, id) ==
    CHOOSE i \in 1..Len(order) :
        /\ order[i].idx <= Len(store.document_ids)
        /\ store.document_ids[order[i].idx] = id

\* C27: what retrieve_documents returns for the query is a prefix of what
\* retrieve_with_fallback returns, the documents after it follow the
\* ranking of the simplified query, and when retrieve_documents returns
\* top_k documents or every token is a stopword there is no second search:
\* the call returns exactly what retrieve_documents returns, whatever a
\* second search would do.
FallbackExtends ==
    (Called("retrieve_with_fallback") /\ retrieve_error(kb, arg.order, arg.top_k) = "none") =>
        /\ ( \/ Len(retrieve_documents(kb, arg.order, arg.top_k)) = arg.top_k
             \/ OnlyStopwords(arg.query) )
           => result = Returned(retrieve_documents(kb, arg.order, arg.top_k))
        /\ result.error = "none" =>
               /\ Len(retrieve_documents(kb, arg.order, arg.top_k)) <= Len(result.docs)
               /\ SubSeq(result.docs, 1, Len(retrieve_documents(kb, arg.order, arg.top_k)))
                      = retrieve_documents(kb, arg.order, arg.top_k)
               /\ \A i, j \in (Len(retrieve_documents(kb, arg.order, arg.top_k)) + 1)
                                  ..Len(result.docs) :
                      i < j => RankOf(kb, arg.simplified_order, result.docs[i].id)
                                   < RankOf(kb, arg.simplified_order, result.docs[j].id)

\* the first search returns nothing and the second search adds two
\* documents, the lower row behind the higher one
FallbackExtendsWitness ==
    /\ Called("retrieve_with_fallback")
    /\ result.error = "none"
    /\ retrieve_documents(kb, arg.order, arg.top_k) = <<>>
    /\ Len(result.docs) = 2
    /\ arg.simplified_order[1].idx > arg.simplified_order[2].idx
    /\ result.docs[1].id = kb.document_ids[arg.simplified_order[1].idx]

\* C29: every name of a comparison intent is, without regard to case, the
\* name of a restaurant document of the store, and no two of its names are
\* equal.
ComparisonNamesKnown ==
    (result # NoResult /\ result.type = "comparison") =>
        /\ \A k \in 1..Len(result.restaurants) :
               \E d \in 1..Len(kb.documents) :
                   /\ kb.documents[d].type = "restaurant"
                   /\ Lower(kb.documents[d].metadata.name) = Lower(result.restaurants[k])
        /\ \A j, k \in 1..Len(result.restaurants) :
               Lower(result.restaurants[j]) = Lower(result.restaurants[k]) => j = k

=============================================================================
